---- MODULE Spec2Model ----
(***************************************************************************)
(* Start-up and new-game initialisation of the Alexandria chess engine     *)
(* (src/src/init.cpp): attack tables built through magic hashing, the      *)
(* squares-between table, the Zobrist keys, the pruning / reduction        *)
(* tables, and the per-game reset InitNewGame.                             *)
(*                                                                         *)
(* Scale.  The engine's board is 8x8 and a Bitboard has 64 bits.  The      *)
(* model keeps the geometry and the arithmetic of the code but on a        *)
(* BoardN x BoardN board whose Bitboard has BoardN*BoardN bits, so that    *)
(* every occupancy subset of every square can be enumerated.  A Bitboard   *)
(* that stands for a set of squares is a set of squares; where the code    *)
(* multiplies it, its numeric value (sum of 2^square) is used, modulo      *)
(* 2^WordBits.                                                             *)
(*                                                                         *)
(* The headers init.cpp includes (attack.h, magic.h, random.h, ttable.h,   *)
(* threads.h, history.h, position.h, search.h) are not part of the         *)
(* sources at hand; what init.cpp calls from them is modelled from the     *)
(* design document.                                                        *)
(***************************************************************************)
EXTENDS Integers, Sequences, FiniteSets, TLC

\* ------------------------------------------------------------------ bounds
\* Files (= ranks) of the modelled board; the engine's is 8.
BoardN == 4
\* MAXDEPTH of the engine's headers (dimension of the pruning tables and of
\* the PV table); kept small.
MAXDEPTH == 8
\* Helper search threads the coordinator may spawn.
MaxHelpers == 2
\* Distinct position hashes a search may store / a game may visit.
MaxHash == 1
\* Distinct (non-null) moves the search may record.
MaxMove == 1
\* Largest node count / selective depth tracked.
MaxNodes == 1
\* Largest value of the millisecond clock.
MaxClock == 1
\* Arbitrary magic constants tried by SpecAnyMagic: 0..MaxMagicSample and
\* the same distance below 2^WordBits - 1.
MaxMagicSample == 3

\* ------------------------------------------------- constants of the headers
MAXPLY == MAXDEPTH
NOMOVE == 0
WHITE == 0
BLACK == 1
\* piece enumeration WP .. BK
WP == 0
BK == 11
\* seed of the pseudo-random generator
RandomSeed == 1804
\* InitTT(16): megabytes
DefaultHashMB == 16

NSquares == BoardN * BoardN
WordBits == NSquares
Squares == 0 .. (NSquares - 1)
Moves == 1 .. MaxMove
Hashes == 1 .. MaxHash
Helpers == 1 .. MaxHelpers

\* ------------------------------------------------------------- bit helpers
Pow2(n) == 2 ^ n

Min(S) == CHOOSE x \in S : \A y \in S : x <= y
Max(S) == CHOOSE x \in S : \A y \in S : x >= y

\* CountBits: population count of a bitboard
CountBits(bb) == Cardinality(bb)

\* index & (1 << count)
TestBit(n, count) == (n \div Pow2(count)) % 2 = 1

\* ---------------------------------------------------------- board geometry
\* square 0 is the top-left corner (a8 in the engine), rank index grows
\* downwards, file index to the right
get_rank(sq) == sq \div BoardN
get_file(sq) == sq % BoardN
get_diagonal(sq) == get_rank(sq) - get_file(sq) + (BoardN - 1)
get_antidiagonal(sq) == get_rank(sq) + get_file(sq)

OnBoard(r, f) == r \in 0 .. (BoardN - 1) /\ f \in 0 .. (BoardN - 1)
SquareAt(r, f) == r * BoardN + f

\* the squares reached from sq by the steps in deltas (leapers)
Leaps(sq, deltas) ==
  { SquareAt(get_rank(sq) + d[1], get_file(sq) + d[2]) :
      d \in { e \in deltas : OnBoard(get_rank(sq) + e[1], get_file(sq) + e[2]) } }

MaskPawnAttacks(side, sq) ==
  IF side = WHITE THEN Leaps(sq, { <<-1, -1>>, <<-1, 1>> })
  ELSE Leaps(sq, { <<1, -1>>, <<1, 1>> })

MaskKnightAttacks(sq) ==
  Leaps(sq, { <<-2, -1>>, <<-2, 1>>, <<2, -1>>, <<2, 1>>,
              <<-1, -2>>, <<-1, 2>>, <<1, -2>>, <<1, 2>> })

MaskKingAttacks(sq) ==
  Leaps(sq, { <<-1, -1>>, <<-1, 0>>, <<-1, 1>>, <<0, -1>>,
              <<0, 1>>, <<1, -1>>, <<1, 0>>, <<1, 1>> })

BishopDirs == { <<1, 1>>, <<1, -1>>, <<-1, 1>>, <<-1, -1>> }
RookDirs == { <<1, 0>>, <<-1, 0>>, <<0, 1>>, <<0, -1>> }

\* Relevant-occupancy ray: the squares from (r, f) on in direction d, the
\* last square of the ray (the board edge) left out.
RECURSIVE MaskRay(_, _, _)
MaskRay(r, f, d) ==
  IF OnBoard(r, f) /\ OnBoard(r + d[1], f + d[2])
  THEN { SquareAt(r, f) } \cup MaskRay(r + d[1], f + d[2], d)
  ELSE {}

\* Attack ray: the squares from (r, f) on in direction d up to and
\* including the first occupied one.
RECURSIVE AttackRay(_, _, _, _)
AttackRay(r, f, d, block) ==
  IF ~OnBoard(r, f) THEN {}
  ELSE IF SquareAt(r, f) \in block THEN { SquareAt(r, f) }
  ELSE { SquareAt(r, f) } \cup AttackRay(r + d[1], f + d[2], d, block)

MaskBishopAttacks(sq) ==
  UNION { MaskRay(get_rank(sq) + d[1], get_file(sq) + d[2], d) : d \in BishopDirs }

MaskRookAttacks(sq) ==
  UNION { MaskRay(get_rank(sq) + d[1], get_file(sq) + d[2], d) : d \in RookDirs }

BishopAttacksOnTheFly(sq, block) ==
  UNION { AttackRay(get_rank(sq) + d[1], get_file(sq) + d[2], d, block) : d \in BishopDirs }

RookAttacksOnTheFly(sq, block) ==
  UNION { AttackRay(get_rank(sq) + d[1], get_file(sq) + d[2], d, block) : d \in RookDirs }

\* SetOccupancy(index, bits_in_mask, attack_mask): pops the mask's least
\* significant square bits_in_mask times; the count-th popped square is
\* occupied iff bit count of index is set.
RECURSIVE SetOccupancyFrom(_, _, _, _)
SetOccupancyFrom(count, index, bits_in_mask, attack_mask) ==
  IF count >= bits_in_mask \/ attack_mask = {} THEN {}
  ELSE LET square == Min(attack_mask)
       IN (IF TestBit(index, count) THEN { square } ELSE {})
            \cup SetOccupancyFrom(count + 1, index, bits_in_mask, attack_mask \ { square })

SetOccupancy(index, bits_in_mask, attack_mask) ==
  SetOccupancyFrom(0, index, bits_in_mask, attack_mask)

\* ------------------------------------------------------------ magic hashing
\* the fixed index widths of magic.h: the largest relevant-occupancy count
\* of any square (9 and 12 on the 8x8 board)
bishop_relevant_bits == Max({ CountBits(MaskBishopAttacks(sq)) : sq \in Squares })
rook_relevant_bits == Max({ CountBits(MaskRookAttacks(sq)) : sq \in Squares })

\* declared second dimension of bishop_attacks / rook_attacks (512 / 4096)
BishopTableSize == Pow2(bishop_relevant_bits)
RookTableSize == Pow2(rook_relevant_bits)

\* occupancy * magic on WordBits-bit unsigned integers: the sum of the
\* magic shifted left by every occupied square, modulo 2^WordBits
RECURSIVE MulWord(_, _)
MulWord(occupancy, magic) ==
  IF occupancy = {} THEN 0
  ELSE LET s == Min(occupancy)
       IN ((magic % Pow2(WordBits - s)) * Pow2(s)
             + MulWord(occupancy \ { s }, magic)) % Pow2(WordBits)

MagicIndex_shortShift(occupancy, magic, relevant_bits) ==
  MulWord(occupancy, magic) \div Pow2(WordBits - relevant_bits - 1)

\* (occupancy * magic) >> (64 - relevant_bits)
MagicIndex(occupancy, magic, relevant_bits) ==
  MulWord(occupancy, magic) \div Pow2(WordBits - relevant_bits)

\* Magic constants that satisfy the design document's precondition (no two
\* occupancies of a square with different attack sets share an index), for
\* the 4x4 and the 5x5 board.
bishop_magic_table ==
  IF BoardN = 4
  THEN <<35856, 8469, 7730, 25026, 37440, 2256, 15908, 17442,
         10752, 33432, 44203, 5664, 544, 14612, 2593, 800>>
  ELSE <<1642504, 3167872, 14876677, 9461249, 3958024, 16785489, 30356515,
         4608, 25166400, 4272714, 9523478, 12813376, 8982561, 7481616,
         20070496, 5640192, 18364352, 4592768, 12649280, 99482, 29374736,
         16917056, 132241, 598092, 9710880>>

rook_magic_table ==
  IF BoardN = 4
  THEN <<34881, 1168, 2568, 17480, 3137, 25872, 2352, 344,
         2320, 37936, 10562, 38995, 4386, 49302, 57500, 9794>>
  ELSE <<3179008, 1190163, 917652, 20482184, 2637856, 28856336, 8320,
         17089541, 2556162, 598532, 528642, 4271376, 9204742, 22022793,
         3149313, 547392, 10535561, 2174993, 20988016, 16468, 823809,
         4294917, 8917017, 12652737, 30003234>>

ValidBishopMagics == [sq \in Squares |-> bishop_magic_table[sq + 1]]
ValidRookMagics == [sq \in Squares |-> rook_magic_table[sq + 1]]

\* a table cell that was never written holds 0 (static storage)
ReadCell(table, index) == IF index \in DOMAIN table THEN table[index] ELSE {}

\* -------------------------------------------------------------------- state
VARIABLES
  pc,                    \* where the main thread is
  square,                \* loop variable of InitAttackTables
  sq1,                   \* outer loop variable of initializeLookupTables
  bishop_magic_numbers, rook_magic_numbers,
  pawn_attacks, knight_attacks, king_attacks,
  bishop_masks, rook_masks, bishop_attacks, rook_attacks,
  SQUARES_BETWEEN_BB,
  PieceKeys, enpassant_keys, CastleKeys, SideKey, random_state,
  reductions, lmp_margin, see_margin, int_overflow,
  tt_mb, tt_entries, nnue_loaded,
  pvLength, pvArray, searchHistory, counterMoves, info,
  played_positions, pos_key,
  threads_data, running, clock

magicVars == <<bishop_magic_numbers, rook_magic_numbers>>
attackVars == <<pawn_attacks, knight_attacks, king_attacks, bishop_masks,
                rook_masks, bishop_attacks, rook_attacks>>
keyVars == <<PieceKeys, enpassant_keys, CastleKeys, SideKey, random_state>>
reductionVars == <<reductions, lmp_margin, see_margin, int_overflow>>
ttVars == <<tt_mb, tt_entries>>
tdVars == <<pvLength, pvArray, searchHistory, counterMoves, info,
            played_positions, pos_key>>
threadVars == <<threads_data, running>>
loopVars == <<square, sq1>>

vars == <<pc, loopVars, magicVars, attackVars, SQUARES_BETWEEN_BB, keyVars,
          reductionVars, ttVars, nnue_loaded, tdVars, threadVars, clock>>

\* everything InitAll builds once
tableVars == <<attackVars, SQUARES_BETWEEN_BB, keyVars>>

PvIndex == 0 .. MAXDEPTH
DepthIndex == 0 .. (MAXDEPTH - 1)
PlyIndex == 0 .. (MAXPLY - 1)
PieceIndex == WP .. BK
CastleIndex == 0 .. 15

\* The state of the globals and of the main ThreadData before main() runs:
\* objects with static storage are zero.
InitCommon ==
  /\ pc = "InitAll"
  /\ square = 0
  /\ sq1 = 0
  /\ pawn_attacks = [side \in { WHITE, BLACK } |-> [sq \in Squares |-> {}]]
  /\ knight_attacks = [sq \in Squares |-> {}]
  /\ king_attacks = [sq \in Squares |-> {}]
  /\ bishop_masks = [sq \in Squares |-> {}]
  /\ rook_masks = [sq \in Squares |-> {}]
  /\ bishop_attacks = [sq \in Squares |-> <<>>]
  /\ rook_attacks = [sq \in Squares |-> <<>>]
  /\ SQUARES_BETWEEN_BB = [a \in Squares |-> [b \in Squares |-> {}]]
  /\ PieceKeys = [p \in PieceIndex |-> [sq \in Squares |-> 0]]
  /\ enpassant_keys = [sq \in Squares |-> 0]
  /\ CastleKeys = [i \in CastleIndex |-> 0]
  /\ SideKey = 0
  /\ random_state = RandomSeed
  /\ reductions = [t \in 0 .. 1 |-> [i \in DepthIndex |-> [j \in PlyIndex |-> 0]]]
  /\ lmp_margin = [d \in DepthIndex |-> [k \in 0 .. 1 |-> 0]]
  /\ see_margin = [d \in DepthIndex |-> [k \in 0 .. 1 |-> 0]]
  /\ int_overflow = FALSE
  /\ tt_mb = 0
  /\ tt_entries = {}
  /\ nnue_loaded = FALSE
  /\ pvLength = [i \in PvIndex |-> 0]
  /\ pvArray = [i \in PvIndex |-> [j \in PvIndex |-> NOMOVE]]
  /\ searchHistory = [m \in Moves |-> 0]
  /\ counterMoves = [m \in Moves |-> NOMOVE]
  /\ info = [starttime |-> 0, stopped |-> 0, nodes |-> 0, seldepth |-> 0]
  /\ played_positions = <<>>
  /\ pos_key = 0
  /\ threads_data = {}
  /\ running = {}
  /\ clock = 0

Init ==
  /\ InitCommon
  /\ bishop_magic_numbers = ValidBishopMagics
  /\ rook_magic_numbers = ValidRookMagics

\* ------------------------------------------------------- InitAttackTables
\* The loop over the occupancy indices of one square writes cell
\* magic_index(index) for index = 0, 1, ... in turn, so after the loop a
\* written cell holds what the last index that hashes to it wrote, and the
\* other cells are as before.
LastWriter(magic_index, cell) ==
  Max({ index \in DOMAIN magic_index : magic_index[index] = cell })

\* lines 85-106
BishopTableAfter(sq, table) ==
  LET bishop_mask == MaskBishopAttacks(sq)
      relevant_bits_count == CountBits(bishop_mask)
      occupancy_indices == Pow2(relevant_bits_count)
      occupancy == [index \in 0 .. (occupancy_indices - 1) |->
                      SetOccupancy(index, relevant_bits_count, bishop_mask)]
      magic_index == [index \in 0 .. (occupancy_indices - 1) |->
                        MagicIndex(occupancy[index], bishop_magic_numbers[sq],
                                   bishop_relevant_bits)]
      written == { magic_index[index] : index \in 0 .. (occupancy_indices - 1) }
  IN [cell \in written \cup DOMAIN table |->
        IF cell \in written
        THEN BishopAttacksOnTheFly(sq, occupancy[LastWriter(magic_index, cell)])
        ELSE table[cell]]

RookTableAfter_bishopMagic(sq, table) ==
  LET rook_mask == MaskRookAttacks(sq)
      relevant_bits_count == CountBits(rook_mask)
      occupancy_indices == Pow2(relevant_bits_count)
      occupancy == [index \in 0 .. (occupancy_indices - 1) |->
                      SetOccupancy(index, relevant_bits_count, rook_mask)]
      magic_index == [index \in 0 .. (occupancy_indices - 1) |->
                        MagicIndex(occupancy[index], bishop_magic_numbers[sq],
                                   rook_relevant_bits)]
      written == { magic_index[index] : index \in 0 .. (occupancy_indices - 1) }
  IN [cell \in written \cup DOMAIN table |->
        IF cell \in written
        THEN RookAttacksOnTheFly(sq, occupancy[LastWriter(magic_index, cell)])
        ELSE table[cell]]

\* lines 108-129
RookTableAfter(sq, table) ==
  LET rook_mask == MaskRookAttacks(sq)
      relevant_bits_count == CountBits(rook_mask)
      occupancy_indices == Pow2(relevant_bits_count)
      occupancy == [index \in 0 .. (occupancy_indices - 1) |->
                      SetOccupancy(index, relevant_bits_count, rook_mask)]
      magic_index == [index \in 0 .. (occupancy_indices - 1) |->
                        MagicIndex(occupancy[index], rook_magic_numbers[sq],
                                   rook_relevant_bits)]
      written == { magic_index[index] : index \in 0 .. (occupancy_indices - 1) }
  IN [cell \in written \cup DOMAIN table |->
        IF cell \in written
        THEN RookAttacksOnTheFly(sq, occupancy[LastWriter(magic_index, cell)])
        ELSE table[cell]]

\* the order of the calls in InitAll
InitAllNext_lookupFirst(stage) ==
  CASE stage = "InitAll" -> "initializeLookupTables"
    [] stage = "initializeLookupTables" -> "InitAttackTables"
    [] stage = "InitAttackTables" -> "initHashKeys"
    [] stage = "initHashKeys" -> "InitReductions"
    [] stage = "InitReductions" -> "InitTT"
    [] stage = "InitTT" -> "nnue_init"
    [] OTHER -> "uci"

InitAllNext(stage) ==
  CASE stage = "InitAll" -> "InitAttackTables"
    [] stage = "InitAttackTables" -> "initializeLookupTables"
    [] stage = "initializeLookupTables" -> "initHashKeys"
    [] stage = "initHashKeys" -> "InitReductions"
    [] stage = "InitReductions" -> "InitTT"
    [] stage = "InitTT" -> "nnue_init"
    [] OTHER -> "uci"

\* InitAll up to its first call (setvbuf, console mode)
InitAll_Enter ==
  /\ pc = "InitAll"
  /\ pc' = InitAllNext("InitAll")
  /\ UNCHANGED <<loopVars, magicVars, attackVars, SQUARES_BETWEEN_BB, keyVars,
                 reductionVars, ttVars, nnue_loaded, tdVars, threadVars, clock>>

\* one iteration of the loop over the squares
InitAttackTables_Square ==
  /\ pc = "InitAttackTables"
  /\ square < NSquares
  /\ pawn_attacks' = [pawn_attacks EXCEPT
                        ![WHITE][square] = MaskPawnAttacks(WHITE, square),
                        ![BLACK][square] = MaskPawnAttacks(BLACK, square)]
  /\ knight_attacks' = [knight_attacks EXCEPT ![square] = MaskKnightAttacks(square)]
  /\ king_attacks' = [king_attacks EXCEPT ![square] = MaskKingAttacks(square)]
  /\ bishop_masks' = [bishop_masks EXCEPT ![square] = MaskBishopAttacks(square)]
  /\ bishop_attacks' = [bishop_attacks EXCEPT
                          ![square] = BishopTableAfter(square, bishop_attacks[square])]
  /\ rook_masks' = [rook_masks EXCEPT ![square] = MaskRookAttacks(square)]
  /\ rook_attacks' = [rook_attacks EXCEPT
                        ![square] = RookTableAfter(square, rook_attacks[square])]
  /\ square' = square + 1
  /\ UNCHANGED <<pc, sq1, magicVars, SQUARES_BETWEEN_BB, keyVars, reductionVars,
                 ttVars, nnue_loaded, tdVars, threadVars, clock>>

\* the loop is over: InitAttackTables returns
InitAttackTables_Return ==
  /\ pc = "InitAttackTables"
  /\ square >= NSquares
  /\ pc' = InitAllNext("InitAttackTables")
  /\ UNCHANGED <<loopVars, magicVars, attackVars, SQUARES_BETWEEN_BB, keyVars,
                 reductionVars, ttVars, nnue_loaded, tdVars, threadVars, clock>>

\* ------------------------------------------------- initializeLookupTables
\* the magic lookups of attack.h
GetBishopAttacks(sq, occ) ==
  ReadCell(bishop_attacks[sq],
           MagicIndex(occ \cap bishop_masks[sq], bishop_magic_numbers[sq],
                      bishop_relevant_bits))

GetRookAttacks(sq, occ) ==
  ReadCell(rook_attacks[sq],
           MagicIndex(occ \cap rook_masks[sq], rook_magic_numbers[sq],
                      rook_relevant_bits))

\* the body of the inner loop: what SQUARES_BETWEEN_BB[a][b] is after it
SquaresBetweenEntry(a, b, old) ==
  LET sqs == { a, b }
  IN IF get_file(a) = get_file(b) \/ get_rank(a) = get_rank(b)
     THEN GetRookAttacks(a, sqs) \cap GetRookAttacks(b, sqs)
     ELSE IF get_diagonal(a) = get_diagonal(b)
               \/ get_antidiagonal(a) = get_antidiagonal(b)
     THEN GetBishopAttacks(a, sqs) \cap GetBishopAttacks(b, sqs)
     ELSE old

\* one iteration of the outer loop (all sq2 for one sq1)
initializeLookupTables_Row ==
  /\ pc = "initializeLookupTables"
  /\ sq1 < NSquares
  /\ SQUARES_BETWEEN_BB' =
       [SQUARES_BETWEEN_BB EXCEPT
          ![sq1] = [sq2 \in Squares |->
                      SquaresBetweenEntry(sq1, sq2, SQUARES_BETWEEN_BB[sq1][sq2])]]
  /\ sq1' = sq1 + 1
  /\ UNCHANGED <<pc, square, magicVars, attackVars, keyVars, reductionVars,
                 ttVars, nnue_loaded, tdVars, threadVars, clock>>

initializeLookupTables_Return ==
  /\ pc = "initializeLookupTables"
  /\ sq1 >= NSquares
  /\ pc' = InitAllNext("initializeLookupTables")
  /\ UNCHANGED <<loopVars, magicVars, attackVars, SQUARES_BETWEEN_BB, keyVars,
                 reductionVars, ttVars, nnue_loaded, tdVars, threadVars, clock>>

\* ------------------------------------------------------------ initHashKeys
\* the pseudo-random generator of random.h: one step of its state
NextRandom(state) == (state * 75 + 74) % 65537

\* the generator's state after n calls of GetRandomBitboardNumber
\* (evaluated in runs of sixteen calls to keep the evaluation shallow)
RECURSIVE RandomRun(_, _)
RandomRun(state, n) ==
  IF n = 0 \/ state < 0 THEN state
  ELSE RandomRun(NextRandom(state), n - 1)

RECURSIVE RandomAfter(_, _)
RandomAfter(state, n) ==
  IF n <= 16 \/ state < 0 THEN RandomRun(state, n)
  ELSE RandomAfter(RandomRun(state, 16), n - 16)

\* GetRandomBitboardNumber returns the generator's new state
NPieceKeys == (BK - WP + 1) * NSquares

\* the keys in the order initHashKeys draws them
HashKeysFrom(state) ==
  [ piece |-> [p \in PieceIndex |-> [sq \in Squares |->
                 RandomAfter(state, (p - WP) * NSquares + sq + 1)]],
    enpassant |-> [sq \in Squares |-> RandomAfter(state, NPieceKeys + sq + 1)],
    castle |-> [i \in CastleIndex |->
                 RandomAfter(state, NPieceKeys + NSquares + i + 1)],
    side |-> RandomAfter(state, NPieceKeys + NSquares + 16 + 1),
    state |-> RandomAfter(state, NPieceKeys + NSquares + 16 + 1) ]

initHashKeys ==
  /\ pc = "initHashKeys"
  /\ LET k == HashKeysFrom(random_state)
     IN /\ PieceKeys' = k.piece
        /\ enpassant_keys' = k.enpassant
        /\ CastleKeys' = k.castle
        /\ SideKey' = k.side
        /\ random_state' = k.state
  /\ pc' = InitAllNext("initHashKeys")
  /\ UNCHANGED <<loopVars, magicVars, attackVars, SQUARES_BETWEEN_BB,
                 reductionVars, ttVars, nnue_loaded, tdVars, threadVars, clock>>

\* ---------------------------------------------------------- InitReductions
\* floor(10000 * ln n) for n = 1 .. 20; std::log(n) lies between this and
\* the next ten-thousandth (ln 1 = 0 exactly)
LnTable ==
  <<0, 6931, 10986, 13862, 16094, 17917, 19459, 20794, 21972, 23025,
    23978, 24849, 25649, 26390, 27080, 27725, 28332, 28903, 29444, 29957>>

\* log(n) in ten-thousandths, rounded down (up = 0) or up (up = 1)
Log(n, up) == IF n = 1 THEN 0 ELSE LnTable[n] + up

TruncToInt_floor(num, den) == num \div den

\* conversion of the real num / den (den > 0) to int: towards zero
TruncToInt(num, den) == IF num >= 0 THEN num \div den ELSE -((-num) \div den)

\* -0.25 + log(i) * log(j) / 2.25
Reduction0(i, j, up) ==
  TruncToInt(Log(i, up) * Log(j, up) - 56250000, 225000000)

\* +1.00 + log(i) * log(j) / 2.00
Reduction1(i, j, up) ==
  TruncToInt(Log(i, up) * Log(j, up) + 200000000, 200000000)

ReductionsTable(old, up) ==
  [t \in 0 .. 1 |-> [i \in DepthIndex |-> [j \in PlyIndex |->
     IF i = 0 /\ j = 0 THEN 0
     ELSE IF i >= 1 /\ j >= 1 /\ j < MAXDEPTH
     THEN (IF t = 0 THEN Reduction0(i, j, up) ELSE Reduction1(i, j, up))
     ELSE old[t][i][j]]]]

\* 1.5 + 0.5 * pow(depth, 2.0)  and  3.0 + 1.0 * pow(depth, 2.0)
LmpMargin_swapped(depth, improving) ==
  IF improving = 1 THEN TruncToInt(3 + depth * depth, 2)
  ELSE TruncToInt(3 + depth * depth, 1)

LmpMargin(depth, improving) ==
  IF improving = 0 THEN TruncToInt(3 + depth * depth, 2)
  ELSE TruncToInt(3 + depth * depth, 1)

\* a * b on 32-bit signed integers overflows
MulOverflows(a, b) ==
  LET abs(x) == IF x < 0 THEN -x ELSE x
  IN a # 0 /\ abs(b) > 2147483647 \div abs(a)

SeeMargin_linear(depth, quiet) ==
  IF quiet = 1 THEN -80 * depth ELSE -30 * depth

\* -80 * depth  and  -30 * depth * depth
SeeMargin(depth, quiet) ==
  IF quiet = 1 THEN -80 * depth ELSE (-30 * depth) * depth

SeeOverflows(depth) ==
  MulOverflows(-80, depth) \/ MulOverflows(-30, depth)
    \/ MulOverflows(-30 * depth, depth)

InitReductions ==
  /\ pc = "InitReductions"
  /\ \E up \in 0 .. 1 : reductions' = ReductionsTable(reductions, up)
  /\ lmp_margin' = [d \in DepthIndex |-> [k \in 0 .. 1 |-> LmpMargin(d, k)]]
  /\ see_margin' = [d \in DepthIndex |-> [k \in 0 .. 1 |-> SeeMargin(d, k)]]
  /\ int_overflow' = (int_overflow \/ \E d \in DepthIndex : SeeOverflows(d))
  /\ pc' = InitAllNext("InitReductions")
  /\ UNCHANGED <<loopVars, magicVars, attackVars, SQUARES_BETWEEN_BB, keyVars,
                 ttVars, nnue_loaded, tdVars, threadVars, clock>>

\* ------------------------------------------------------- InitTT, nnue.init
InitTT ==
  /\ pc = "InitTT"
  /\ tt_mb' = DefaultHashMB
  /\ tt_entries' = {}
  /\ pc' = InitAllNext("InitTT")
  /\ UNCHANGED <<loopVars, magicVars, attackVars, SQUARES_BETWEEN_BB, keyVars,
                 reductionVars, nnue_loaded, tdVars, threadVars, clock>>

nnue_init ==
  /\ pc = "nnue_init"
  /\ nnue_loaded' = TRUE
  /\ pc' = InitAllNext("nnue_init")
  /\ UNCHANGED <<loopVars, magicVars, attackVars, SQUARES_BETWEEN_BB, keyVars,
                 reductionVars, ttVars, tdVars, threadVars, clock>>

\* --------------------------------------------- search activity between games
\* What the protocol layer and the search do to the state InitNewGame
\* resets.  The main worker's search is taken as one step per searched
\* move; helper workers run on their own and share only the table.

Bump(n, cap) == IF n < cap THEN n + 1 ELSE n

\* the coordinator spawns n helper workers
StartSearch(n) ==
  /\ pc = "uci"
  /\ running = {}
  /\ threads_data = {}
  /\ threads_data' = 1 .. n
  /\ running' = 1 .. n
  /\ info' = [info EXCEPT !.starttime = clock, !.stopped = 0]
  /\ UNCHANGED <<pc, loopVars, magicVars, attackVars, SQUARES_BETWEEN_BB,
                 keyVars, reductionVars, ttVars, nnue_loaded, pvLength, pvArray,
                 searchHistory, counterMoves, played_positions, pos_key, clock>>

\* the main worker searches move m in a position of hash h: it counts the
\* node, records m in its PV, history and counter-move tables, and stores
\* the position in the shared table
MainSearch(m, h) ==
  /\ pc = "uci"
  /\ info.stopped = 0
  /\ info' = [info EXCEPT !.nodes = Bump(@, MaxNodes), !.seldepth = Bump(@, MaxNodes)]
  /\ pvLength' = [pvLength EXCEPT ![0] = 1]
  /\ pvArray' = [pvArray EXCEPT ![0][0] = m]
  /\ searchHistory' = [searchHistory EXCEPT ![m] = 1]
  /\ counterMoves' = [counterMoves EXCEPT ![m] = m]
  /\ tt_entries' = tt_entries \cup { h }
  /\ UNCHANGED <<pc, loopVars, magicVars, attackVars, SQUARES_BETWEEN_BB,
                 keyVars, reductionVars, tt_mb, nnue_loaded, played_positions,
                 pos_key, threadVars, clock>>

\* the stop signal reaches the main worker
StopSearch ==
  /\ pc = "uci"
  /\ info.stopped = 0
  /\ info.nodes > 0
  /\ info' = [info EXCEPT !.stopped = 1]
  /\ UNCHANGED <<pc, loopVars, magicVars, attackVars, SQUARES_BETWEEN_BB,
                 keyVars, reductionVars, ttVars, nnue_loaded, pvLength, pvArray,
                 searchHistory, counterMoves, played_positions, pos_key,
                 threadVars, clock>>

\* a move is played on the board: the position reached has hash h
MakeMove(h) ==
  /\ pc = "uci"
  /\ Len(played_positions) < MaxHash
  /\ played_positions' = Append(played_positions, h)
  /\ pos_key' = h
  /\ UNCHANGED <<pc, loopVars, magicVars, attackVars, SQUARES_BETWEEN_BB,
                 keyVars, reductionVars, ttVars, nnue_loaded, pvLength, pvArray,
                 searchHistory, counterMoves, info, threadVars, clock>>

\* a running helper worker stores the position of hash h in the shared table
HelperStore(t, h) ==
  /\ t \in running
  /\ h \notin tt_entries
  /\ tt_entries' = tt_entries \cup { h }
  /\ UNCHANGED <<pc, loopVars, magicVars, attackVars, SQUARES_BETWEEN_BB,
                 keyVars, reductionVars, tt_mb, nnue_loaded, tdVars, threadVars,
                 clock>>

\* a helper worker finishes its search on its own
HelperExit(t) ==
  /\ t \in running
  /\ running' = running \ { t }
  /\ UNCHANGED <<pc, loopVars, magicVars, attackVars, SQUARES_BETWEEN_BB,
                 keyVars, reductionVars, ttVars, nnue_loaded, tdVars,
                 threads_data, clock>>

\* time passes
Tick ==
  /\ pc = "uci"
  /\ clock < MaxClock
  /\ clock' = clock + 1
  /\ UNCHANGED <<pc, loopVars, magicVars, attackVars, SQUARES_BETWEEN_BB,
                 keyVars, reductionVars, ttVars, nnue_loaded, tdVars, threadVars>>

\* ------------------------------------------------------------- InitNewGame
\* GetTimeMs
GetTimeMs == clock

\* CleanHistories(sd): every history score back to 0
CleanHistories(history) == [m \in DOMAIN history |-> 0]

\* std::memset(dst, value, size): every byte of every cell becomes
\* (unsigned char) value; the value of a cell made of four such bytes (a
\* move is taken to be a 32-bit int)
MemsetCell(value) ==
  LET b == value % 256
  IN IF b < 128 THEN b * 16843009 ELSE (b - 255) * 16843009 - 1

\* lines 193-214: histories, PV table, counter moves, search info
InitNewGame_Reset ==
  /\ pc = "uci"
  /\ searchHistory' = CleanHistories(searchHistory)
  /\ pvLength' = [index \in PvIndex |-> 0]
  /\ pvArray' = [index \in PvIndex |-> [index2 \in PvIndex |-> NOMOVE]]
  /\ counterMoves' = [m \in DOMAIN counterMoves |-> MemsetCell(NOMOVE)]
  /\ info' = [starttime |-> GetTimeMs, stopped |-> 0, nodes |-> 0, seldepth |-> 0]
  /\ pc' = "ClearTT"
  /\ UNCHANGED <<loopVars, magicVars, attackVars, SQUARES_BETWEEN_BB, keyVars,
                 reductionVars, ttVars, nnue_loaded, played_positions, pos_key,
                 threadVars, clock>>

\* line 216: ClearTT()
InitNewGame_ClearTT ==
  /\ pc = "ClearTT"
  /\ tt_entries' = {}
  /\ pc' = "StopHelperThreads"
  /\ UNCHANGED <<loopVars, magicVars, attackVars, SQUARES_BETWEEN_BB, keyVars,
                 reductionVars, tt_mb, nnue_loaded, tdVars, threadVars, clock>>

\* line 219: StopHelperThreads() flags every helper and joins it
InitNewGame_StopHelperThreads ==
  /\ pc = "StopHelperThreads"
  /\ running' = {}
  /\ pc' = "ClearThreadsData"
  /\ UNCHANGED <<loopVars, magicVars, attackVars, SQUARES_BETWEEN_BB, keyVars,
                 reductionVars, ttVars, nnue_loaded, tdVars, threads_data, clock>>

InitNewGame_Tail_rehash ==
  /\ pc = "ClearThreadsData"
  /\ threads_data' = {}
  /\ played_positions' = <<>>
  /\ pos_key' = 0
  /\ LET k == HashKeysFrom(random_state)
     IN /\ PieceKeys' = k.piece
        /\ enpassant_keys' = k.enpassant
        /\ CastleKeys' = k.castle
        /\ SideKey' = k.side
        /\ random_state' = k.state
  /\ pc' = "InitNewGame_returned"
  /\ UNCHANGED <<loopVars, magicVars, attackVars, SQUARES_BETWEEN_BB,
                 reductionVars, ttVars, nnue_loaded, pvLength, pvArray,
                 searchHistory, counterMoves, info, running, clock>>

\* lines 221-226: threads_data.clear(), played_positions.clear(),
\* ParsePosition("position startpos", pos)
InitNewGame_Tail ==
  /\ pc = "ClearThreadsData"
  /\ threads_data' = {}
  /\ played_positions' = <<>>
  /\ pos_key' = 0
  /\ pc' = "InitNewGame_returned"
  /\ UNCHANGED <<loopVars, magicVars, attackVars, SQUARES_BETWEEN_BB, keyVars,
                 reductionVars, ttVars, nnue_loaded, pvLength, pvArray,
                 searchHistory, counterMoves, info, running, clock>>

\* back in the command loop
UciLoop ==
  /\ pc = "InitNewGame_returned"
  /\ pc' = "uci"
  /\ UNCHANGED <<loopVars, magicVars, attackVars, SQUARES_BETWEEN_BB, keyVars,
                 reductionVars, ttVars, nnue_loaded, tdVars, threadVars, clock>>

\* ---------------------------------------------------------- specifications
NextInitAll ==
  \/ InitAll_Enter
  \/ InitAttackTables_Square
  \/ InitAttackTables_Return
  \/ initializeLookupTables_Row
  \/ initializeLookupTables_Return
  \/ initHashKeys
  \/ InitReductions
  \/ InitTT
  \/ nnue_init

Next ==
  \/ NextInitAll
  \/ \E n \in Helpers : StartSearch(n)
  \/ \E m \in Moves, h \in Hashes : MainSearch(m, h)
  \/ StopSearch
  \/ \E h \in Hashes : MakeMove(h)
  \/ \E t \in Helpers, h \in Hashes : HelperStore(t, h)
  \/ \E t \in Helpers : HelperExit(t)
  \/ Tick
  \/ InitNewGame_Reset
  \/ InitNewGame_ClearTT
  \/ InitNewGame_StopHelperThreads
  \/ InitNewGame_Tail
  \/ UciLoop

Spec == Init /\ [][Next]_vars

\* the start-up alone, under magic constants of any value
MagicSamples ==
  (0 .. MaxMagicSample) \cup { Pow2(WordBits) - 1 - k : k \in 0 .. MaxMagicSample }

InitAnyMagic ==
  /\ InitCommon
  /\ \/ \E bm \in MagicSamples, rm \in MagicSamples :
          /\ bishop_magic_numbers = [sq \in Squares |-> bm]
          /\ rook_magic_numbers = [sq \in Squares |-> rm]
     \/ /\ bishop_magic_numbers = ValidBishopMagics
        /\ rook_magic_numbers = ValidRookMagics

SpecAnyMagic == InitAnyMagic /\ [][NextInitAll]_vars

\* ------------------------------------------------------------------ claims
\* where the main thread is while InitAll runs
InitAllStages ==
  { "InitAll", "InitAttackTables", "initializeLookupTables", "initHashKeys",
    "InitReductions", "InitTT", "nnue_init" }

\* InitAll has returned
InitAllReturned == pc \notin InitAllStages

\* InitReductions has run
ReductionsDone ==
  pc \notin { "InitAll", "InitAttackTables", "initializeLookupTables",
              "initHashKeys", "InitReductions" }

\* The precondition on the magic constants: on no square do two
\* occupancies of the relevant mask with different attack sets hash to the
\* same index (as many index/attack-set pairs as indices).
MagicsValid ==
  \A sq \in Squares :
    /\ LET idx(occ) == MagicIndex(occ, bishop_magic_numbers[sq], bishop_relevant_bits)
           occs == SUBSET MaskBishopAttacks(sq)
       IN Cardinality({ <<idx(occ), BishopAttacksOnTheFly(sq, occ)>> : occ \in occs })
            = Cardinality({ idx(occ) : occ \in occs })
    /\ LET idx(occ) == MagicIndex(occ, rook_magic_numbers[sq], rook_relevant_bits)
           occs == SUBSET MaskRookAttacks(sq)
       IN Cardinality({ <<idx(occ), RookAttacksOnTheFly(sq, occ)>> : occ \in occs })
            = Cardinality({ idx(occ) : occ \in occs })

StrictlyBetween(a, b) ==
  LET between(x, lo, hi) == (x - lo) * (x - hi) < 0
      line(s) ==
        \/ get_rank(a) = get_rank(b) /\ get_rank(s) = get_rank(a)
             /\ between(get_file(s), get_file(a), get_file(b))
        \/ get_file(a) = get_file(b) /\ get_file(s) = get_file(a)
             /\ between(get_rank(s), get_rank(a), get_rank(b))
        \/ get_diagonal(a) = get_diagonal(b) /\ get_diagonal(s) = get_diagonal(a)
             /\ between(get_rank(s), get_rank(a), get_rank(b))
        \/ get_antidiagonal(a) = get_antidiagonal(b)
             /\ get_antidiagonal(s) = get_antidiagonal(a)
             /\ between(get_rank(s), get_rank(a), get_rank(b))
  IN IF a = b THEN {} ELSE { s \in Squares : line(s) }

\* C2: after initializeLookupTables, for every ordered pair of squares,
\* the pairs (sq, sq) included, SQUARES_BETWEEN_BB holds exactly the squares
\* strictly between the two when they share a rank, file or diagonal, and
\* the empty set otherwise.
C2_SquaresBetweenAllPairs ==
  sq1 = NSquares =>
    \A a \in Squares, b \in Squares :
      SQUARES_BETWEEN_BB[a][b] = StrictlyBetween(a, b)

\* what does hold of the table: the entries of two different squares
SquaresBetweenOfDistinct ==
  sq1 = NSquares /\ square = NSquares =>
    \A a \in Squares : \A b \in Squares \ { a } :
      SQUARES_BETWEEN_BB[a][b] = StrictlyBetween(a, b)

\* and the entry of a square with itself: its rook attacks on an empty board
SquaresBetweenOfSame ==
  sq1 = NSquares /\ square = NSquares =>
    \A a \in Squares : SQUARES_BETWEEN_BB[a][a] = RookAttacksOnTheFly(a, {})

\* C3: when InitNewGame clears the shared transposition table, the helper
\* search threads have been stopped: no helper is running that could
\* probe or store into the table.
C3_NoHelperWhileClearing == pc = "ClearTT" => running = {}

\* the per-game state of the main worker that no other thread touches
ThreadLocalCleared ==
  /\ \A i \in PvIndex : pvLength[i] = 0
  /\ \A i \in PvIndex, j \in PvIndex : pvArray[i][j] = NOMOVE
  /\ \A m \in Moves : searchHistory[m] = 0
  /\ \A m \in Moves : counterMoves[m] = NOMOVE
  /\ info.nodes = 0
  /\ info.seldepth = 0
  /\ info.stopped = 0
  /\ threads_data = {}
  /\ played_positions = <<>>
  /\ pos_key = 0

\* C4: when InitNewGame returns, whatever the previous game left, the PV
\* table, the histories, the counter moves, the search counters and the
\* stop flag are reset, the transposition table holds no entry, threads_data
\* is empty and the played positions are gone (the start position is set).
C4_AllClearedOnReturn ==
  pc = "InitNewGame_returned" => (ThreadLocalCleared /\ tt_entries = {})

\* what does hold on return: everything but the shared table
ThreadLocalClearedOnReturn ==
  pc = "InitNewGame_returned" => (ThreadLocalCleared /\ running = {})

\* C5: once InitAll has returned, no step (in particular no step of an
\* InitNewGame call) changes an attack table, the squares-between table or
\* a Zobrist key.
C5_TablesFrozen == [][InitAllReturned => UNCHANGED tableVars]_vars

\* an InitNewGame call has just returned, the tables and keys being built
C5_Witness ==
  /\ pc = "InitNewGame_returned"
  /\ SideKey # 0
  /\ \A sq \in Squares : rook_attacks[sq] # <<>>

\* C6: after InitReductions, at every depth d the late-move-pruning margin
\* is floor((3 + d*d) / 2) when not improving and 3 + d*d when improving,
\* the improving margin is the larger, and both grow strictly with d.
C6_LmpMargins ==
  ReductionsDone =>
    \A d \in DepthIndex :
      /\ lmp_margin[d][0] = (3 + d * d) \div 2
      /\ lmp_margin[d][1] = 3 + d * d
      /\ lmp_margin[d][1] > lmp_margin[d][0]
      /\ d + 1 \in DepthIndex =>
           /\ lmp_margin[d + 1][0] > lmp_margin[d][0]
           /\ lmp_margin[d + 1][1] > lmp_margin[d][1]

C6_Witness ==
  /\ ReductionsDone
  /\ lmp_margin[2][0] = 3
  /\ lmp_margin[2][1] = 7

\* C7: after InitReductions, at every depth d the static-exchange margin is
\* -80*d for quiet moves and -30*d*d for the others; both are 0 at depth 0,
\* never positive, strictly decreasing in d, and no multiplication
\* overflowed a 32-bit signed integer.
C7_SeeMargins ==
  ReductionsDone =>
    /\ ~int_overflow
    /\ see_margin[0][0] = 0 /\ see_margin[0][1] = 0
    /\ \A d \in DepthIndex :
         /\ see_margin[d][1] = -80 * d
         /\ see_margin[d][0] = -30 * d * d
         /\ see_margin[d][0] <= 0 /\ see_margin[d][1] <= 0
         /\ d + 1 \in DepthIndex =>
              /\ see_margin[d + 1][0] < see_margin[d][0]
              /\ see_margin[d + 1][1] < see_margin[d][1]

C7_Witness ==
  /\ ReductionsDone
  /\ see_margin[2][1] = -160
  /\ see_margin[2][0] = -120

\* C8: after InitReductions, for all i, j in 1 .. MAXDEPTH-1 the reduction
\* of the smaller formula is at most that of the larger one and neither is
\* negative, and every entry with i = 0 or j = 0 is 0.
C8_Reductions ==
  ReductionsDone =>
    /\ \A i \in 1 .. (MAXDEPTH - 1), j \in 1 .. (MAXDEPTH - 1) :
         /\ reductions[0][i][j] <= reductions[1][i][j]
         /\ reductions[0][i][j] >= 0
         /\ reductions[1][i][j] >= 0
    /\ \A t \in 0 .. 1, i \in DepthIndex, j \in PlyIndex :
         (i = 0 \/ j = 0) => reductions[t][i][j] = 0

\* the table is filled: the smaller formula still truncates to 0 where the
\* logarithms are small and reaches 1 where they are large
C8_Witness ==
  /\ ReductionsDone
  /\ reductions[0][1][1] = 0
  /\ reductions[1][1][1] = 1
  /\ reductions[0][MAXDEPTH - 1][MAXDEPTH - 1] >= 1
  /\ reductions[1][MAXDEPTH - 1][MAXDEPTH - 1] > reductions[0][MAXDEPTH - 1][MAXDEPTH - 1]

\* every mask and every slider table of every square is written
AttackTablesBuilt ==
  /\ square = NSquares
  /\ \A sq \in Squares :
       /\ bishop_masks[sq] = MaskBishopAttacks(sq)
       /\ rook_masks[sq] = MaskRookAttacks(sq)
       /\ bishop_attacks[sq] # <<>>
       /\ rook_attacks[sq] # <<>>

\* C9: while initializeLookupTables runs (and reads the slider tables),
\* InitAttackTables has written the masks and tables of all squares; and
\* once InitAll has returned, hence whenever a search runs, the
\* transposition table and the evaluation network are initialised.
C9_InitOrder ==
  /\ pc = "initializeLookupTables" => AttackTablesBuilt
  /\ sq1 > 0 => AttackTablesBuilt
  /\ InitAllReturned => (tt_mb > 0 /\ nnue_loaded)
  /\ (running # {} \/ info.nodes > 0) => (tt_mb > 0 /\ nnue_loaded)

\* initializeLookupTables is under way and has read the tables
C9_Witness ==
  /\ pc = "initializeLookupTables"
  /\ sq1 > 0
  /\ sq1 < NSquares
  /\ SQUARES_BETWEEN_BB[0][BoardN - 1] # {}

\* C10: every cell InitAttackTables writes lies inside the declared arrays,
\* whatever the magic constants are: bishop cells in 0 .. BishopTableSize-1,
\* rook cells in 0 .. RookTableSize-1.
C10_IndicesInBounds ==
  \A sq \in Squares :
    /\ DOMAIN bishop_attacks[sq] \subseteq 0 .. (BishopTableSize - 1)
    /\ DOMAIN rook_attacks[sq] \subseteq 0 .. (RookTableSize - 1)

\* under magic constants that are not valid ones the build has written
\* the last cell of both arrays
C10_Witness ==
  /\ square = NSquares
  /\ bishop_magic_numbers # ValidBishopMagics
  /\ \E sq \in Squares : (BishopTableSize - 1) \in DOMAIN bishop_attacks[sq]
  /\ \E sq \in Squares : (RookTableSize - 1) \in DOMAIN rook_attacks[sq]

====
